---------------------------- MODULE Spec2Model ----------------------------
(* A model of PIL/JpegImagePlugin.py: the JPEG container marker scanner     *)
(* (JpegImageFile._open and the segment handlers Skip, APP, COM, SOF, DQT)  *)
(* and the save-side configuration resolver (_save).                        *)
(*                                                                          *)
(* Byte strings are sequences of integers 0..255.  Python indexes from 0,   *)
(* TLA+ from 1: s[k] of the source is s[k+1] here.  The source is Python 2  *)
(* code (xrange, dict.has_key, str byte strings).                           *)
EXTENDS Integers, Sequences, FiniteSets, TLC

VARIABLES
    pc,             \* where the program is: "open", "scan", "done", "failed",
                    \* "image" (an image that came from another codec), "saved", "savefailed"
    im,             \* the image object (self in the parser, im in _save): a record of its fields
    s,              \* the local s of _open: the pending marker byte(s)
    fp,             \* the unread bytes of the file, when the file is one the program wrote
    src,            \* "feed": the environment decides the next bytes at each step; "file": fp is the file
    nseg,           \* loop iterations done so far in this open (bounds the fed stream)
    err,            \* the message of the exception that ended the open or the save ("" if none)
    hist            \* history: i, s: the candidate and the payload of the last iteration;
                    \* sof: the payload of the last frame header given to SOF;
                    \* icc: the profile given to the save that wrote the file being read;
                    \* gen: 0 for a first open, 1 for the open of a file the program wrote

vars == <<pc, im, s, fp, src, nseg, err, hist>>

-----------------------------------------------------------------------------
(* Python values *)

None == <<>>
Some(x) == <<x>>

Min(a, b) == IF a < b THEN a ELSE b
Max(a, b) == IF a > b THEN a ELSE b

\* F(v) with v computed once (a local variable of the source holding a computed value)
Eval(F(_), v) == CHOOSE y \in {F(x) : x \in {v}} : TRUE

\* s[a:b] of Python for 0 <= a <= b
Slice(str, a, b) == SubSeq(str, a + 1, Min(b, Len(str)))
\* s[a:]
From(str, a) == SubSeq(str, a + 1, Len(str))

\* fp.read(n): up to n bytes, fewer at the end of the stream
Read(f, n) == [data |-> Slice(f, 0, n), rest |-> From(f, Min(n, Len(f)))]

\* i8 = _binary.i8: the value of one byte
i8(c) == c

\* i16 = _binary.i16be: big-endian 16 bit at offset o; the caller checks CanI16 (it raises otherwise)
CanI16(c, o) == Len(c) >= o + 2
i16(c, o) == c[o + 1] * 256 + c[o + 2]

\* o8 = _binary.o8: one byte from an integer (chr(i & 255))
o8(i) == <<i % 256>>

\* struct.pack(">H", n)
packH(n) == <<(n \div 256) % 256, n % 256>>

-----------------------------------------------------------------------------
(* The marker table *)

SOI == 65496
SOS == 65498
FirstMarker == 65472
LastMarker == 65534

\* a table that also holds the codes 0xFF01..0xFFBF
InMARKER_wide(i) == i >= 65281 /\ i <= LastMarker

\* MARKER[i][2]: the handler of marker i, for i in the table (0xFFC0..0xFFFE)
InMARKER(i) == i >= FirstMarker /\ i <= LastMarker
MARKER(i) ==
    CASE i \in {65476, 65484, 65498, 65500, 65501, 65503} -> "Skip"
      [] i \in {65480} \cup (65488..65497) \cup (65520..65533) -> "None"
      [] i = 65499 -> "DQT"
      [] i \in 65504..65519 -> "APP"
      [] i = 65534 -> "COM"
      [] OTHER -> "SOF"

-----------------------------------------------------------------------------
(* Reading a length-prefixed segment *)

\* ImageFile._safe_read(fp, n): exactly n bytes, nothing for n <= 0; a short read fails
safe_read(f, n) ==
    IF n <= 0 THEN [err |-> "", s |-> <<>>, fp |-> f]
    ELSE IF Len(f) < n THEN [err |-> "truncated", s |-> f, fp |-> <<>>]
    ELSE [err |-> "", s |-> Slice(f, 0, n), fp |-> From(f, n)]

\* n = i16(self.fp.read(2))-2 ; s = ImageFile._safe_read(self.fp, n)
ReadSegment(f) ==
    LET hdr == Read(f, 2) IN
    IF ~CanI16(hdr.data, 0) THEN [err |-> "truncated", s |-> <<>>, fp |-> hdr.rest]
    ELSE safe_read(hdr.rest, i16(hdr.data, 0) - 2)

\* d[k] = v on a dictionary
Put(d, k, v) == [x \in (DOMAIN d) \cup {k} |-> IF x = k THEN v ELSE d[x]]

HasPrefix(str, p) == Slice(str, 0, Len(p)) = p

JFIF == <<74, 70, 73, 70>>
Exif0 == <<69, 120, 105, 102, 0>>
FPXR0 == <<70, 80, 88, 82, 0>>
ICC_PROFILE0 == <<73, 67, 67, 95, 80, 82, 79, 70, 73, 76, 69, 0>>
Adobe == <<65, 100, 111, 98, 101>>

\* "APP%d" % (marker&15)
AppName(marker) ==
    <<"APP0", "APP1", "APP2", "APP3", "APP4", "APP5", "APP6", "APP7", "APP8",
      "APP9", "APP10", "APP11", "APP12", "APP13", "APP14", "APP15">>[(marker % 16) + 1]

-----------------------------------------------------------------------------
(* The handlers.  Each takes the image object, the marker and the payload  *)
(* already read, and gives the image object as the handler leaves it and   *)
(* the exception it raised ("" for none).                                   *)

\* Skip: the payload is discarded
Skip(self, marker, str) == [im |-> self, err |-> ""]

\* every unit taken for inches
IsInches_any(jfif_unit) == TRUE

\* jfif_unit == 1
IsInches(jfif_unit) == jfif_unit = 1

APP(self, marker, str) ==
    LET app == AppName(marker)
        im1 == [self EXCEPT !.app = Put(@, app, str),
                            !.applist = Append(@, <<app, str>>)]
    IN
    IF marker = 65504 /\ HasPrefix(str, JFIF) THEN
        IF ~CanI16(str, 5) THEN [im |-> im1, err |-> "struct.error"]
        ELSE
            LET version == i16(str, 5)
                im2 == [im1 EXCEPT !.info.jfif = Some(version),
                                   !.info.jfif_version = Some(<<version \div 256, version % 256>>)]
            IN
            \* try: i8(s[7]); i16(s, 8), i16(s, 10)  except: pass
            IF Len(str) >= 8 /\ CanI16(str, 8) /\ CanI16(str, 10) THEN
                LET jfif_unit == i8(str[8])
                    jfif_density == <<i16(str, 8), i16(str, 10)>>
                IN [im |-> [im2 EXCEPT !.info.dpi = IF IsInches(jfif_unit) THEN Some(jfif_density) ELSE @,
                                       !.info.jfif_unit = Some(jfif_unit),
                                       !.info.jfif_density = Some(jfif_density)],
                    err |-> ""]
            ELSE [im |-> im2, err |-> ""]
    ELSE IF marker = 65505 /\ HasPrefix(str, Exif0) THEN
        [im |-> [im1 EXCEPT !.info.exif = Some(str)], err |-> ""]
    ELSE IF marker = 65506 /\ HasPrefix(str, FPXR0) THEN
        [im |-> [im1 EXCEPT !.info.flashpix = Some(str)], err |-> ""]
    ELSE IF marker = 65506 /\ HasPrefix(str, ICC_PROFILE0) THEN
        \* self.icclist.append(s): icclist is None once a frame header has reassembled
        IF im1.icclist.none THEN [im |-> im1, err |-> "AttributeError"]
        ELSE [im |-> [im1 EXCEPT !.icclist.list = Append(@, str)], err |-> ""]
    ELSE IF marker = 65518 /\ HasPrefix(str, Adobe) THEN
        IF ~CanI16(str, 5) THEN [im |-> im1, err |-> "struct.error"]
        ELSE [im |-> [im1 EXCEPT !.info.adobe = Some(i16(str, 5)),
                                 !.info.adobe_transform = Some(i8(str[2]))],
              err |-> ""]
    ELSE [im |-> im1, err |-> ""]

\* the comment kept in the last-value map only
COM_maponly(self, marker, str) ==
    [im |-> [self EXCEPT !.app = Put(@, "COM", str)],
     err |-> ""]

COM(self, marker, str) ==
    [im |-> [self EXCEPT !.app = Put(@, "COM", str),
                         !.applist = Append(@, <<"COM", str>>)],
     err |-> ""]

\* the order of Python byte strings: by unsigned byte value, a proper prefix first
LexLeq(a, b) ==
    LET n == Min(Len(a), Len(b))
        d == {k \in 1..n : a[k] # b[k]}
    IN IF d = {} THEN Len(a) <= Len(b)
       ELSE LET k == CHOOSE k \in d : \A j \in d : k <= j IN a[k] < b[k]

\* x put into the ascending list l, after the entries below it
InsertSorted(x, l) ==
    LET k == Cardinality({j \in 1..Len(l) : ~LexLeq(x, l[j])})
    IN SubSeq(l, 1, k) \o <<x>> \o SubSeq(l, k + 1, Len(l))

\* the entries l[lo..hi] put into the ascending list acc
RECURSIVE SortInto(_, _, _, _)
SortInto(acc, l, lo, hi) ==
    IF lo > hi THEN acc
    ELSE IF lo = hi THEN Eval(LAMBDA a : InsertSorted(l[lo], a), acc)
    ELSE LET mid == (lo + hi) \div 2
         IN Eval(LAMBDA a : SortInto(a, l, mid + 1, hi), SortInto(acc, l, lo, mid))

\* the fragments left in arrival order
Sort_none(l) == l

\* list.sort(): ascending
Sort(l) == SortInto(<<>>, l, 1, Len(l))

\* b"".join(p[14:] for p in l)
RECURSIVE JoinRange(_, _, _)
JoinRange(l, lo, hi) ==
    IF lo > hi THEN <<>>
    ELSE IF lo = hi THEN From(l[lo], 14)
    ELSE LET mid == (lo + hi) \div 2
         IN JoinRange(l, lo, mid) \o JoinRange(l, mid + 1, hi)

JoinTails(l) == JoinRange(l, 1, Len(l))

PyNone == [none |-> TRUE, bytes |-> <<>>]
Bytes(b) == [none |-> FALSE, bytes |-> b]

\* a declared total of at least the number of fragments
CountMatches_atleast(sorted) == i8(sorted[1][14]) >= Len(sorted)

\* i8(self.icclist[0][13]) == len(self.icclist)
CountMatches(sorted) == i8(sorted[1][14]) = Len(sorted)

\* the fragment list left in place
Discard_not(icclist) == icclist

\* self.icclist = None
Discard(icclist) == [none |-> TRUE, list |-> <<>>]

\* the "fixup icc profile" block of SOF
FixupICC(self) ==
    IF self.icclist.none \/ self.icclist.list = <<>> THEN [im |-> self, err |-> ""]
    ELSE
        Eval(LAMBDA sorted :
        IF Len(sorted[1]) < 14 THEN
            \* i8(self.icclist[0][13]) on a fragment without the two header bytes
            [im |-> [self EXCEPT !.icclist.list = sorted], err |-> "IndexError"]
        ELSE
            LET icc_profile == IF CountMatches(sorted)
                               THEN Bytes(JoinTails(sorted))
                               ELSE PyNone
            IN [im |-> [self EXCEPT !.info.icc_profile = Some(icc_profile),
                                    !.icclist = Discard(@)],
                err |-> ""],
        Sort(self.icclist.list))

\* the component descriptors of the frame header: one per 3 bytes from offset 6
Layers(str) ==
    [k \in 1..((Len(str) - 6) \div 3) |->
        <<str[6 + 3 * (k - 1) + 1],
          i8(str[6 + 3 * (k - 1) + 2]) \div 16,
          i8(str[6 + 3 * (k - 1) + 2]) % 16,
          i8(str[6 + 3 * (k - 1) + 3])>>]

\* height and width taken the other way round
SizeOf_swapped(str) == <<i16(From(str, 1), 0), i16(From(str, 3), 0)>>

\* self.size = i16(s[3:]), i16(s[1:])
SizeOf(str) == <<i16(From(str, 3), 0), i16(From(str, 1), 0)>>

\* four layers taken for RGB
ModeOf_rgb4(layers) ==
    CASE layers = 1 -> "L"
      [] layers = 3 -> "RGB"
      [] layers = 4 -> "RGB"

\* the mode of a frame of 1, 3 or 4 layers
ModeOf(layers) ==
    CASE layers = 1 -> "L"
      [] layers = 3 -> "RGB"
      [] layers = 4 -> "CMYK"

SOF(self, marker, str) ==
    IF ~CanI16(From(str, 3), 0) THEN [im |-> self, err |-> "struct.error"]
    ELSE
    LET im1 == [self EXCEPT !.size = SizeOf(str),
                            !.bits = i8(str[1])]
    IN
    IF im1.bits # 8 THEN [im |-> im1, err |-> "cannot handle bits"]
    ELSE IF Len(str) < 6 THEN [im |-> im1, err |-> "IndexError"]
    ELSE
    LET layers == i8(str[6])
        im2 == [im1 EXCEPT !.layers = layers,
                           !.mode = IF layers \in {1, 3, 4} THEN ModeOf(layers) ELSE @]
    IN
    IF layers \notin {1, 3, 4} THEN [im |-> im2, err |-> "cannot handle layers"]
    ELSE
    LET im3 == IF marker \in {65474, 65478, 65482, 65486}
               THEN [im2 EXCEPT !.info.progressive = Some(1), !.info.progression = Some(1)]
               ELSE im2
        icc == FixupICC(im3)
    IN
    IF icc.err # "" THEN icc
    ELSE
        LET im4 == [icc.im EXCEPT !.layer = @ \o Layers(str)] IN
        \* t[1], t[2] of a last group shorter than 3 bytes
        IF (Len(str) - 6) % 3 # 0 THEN [im |-> im4, err |-> "IndexError"]
        ELSE [im |-> im4, err |-> ""]

\* array.array("b", bytes): signed chars
SignedByte(b) == IF b >= 128 THEN b - 256 ELSE b
ArrayB(str) == [k \in 1..Len(str) |-> SignedByte(str[k])]

TableBytes == 65

\* every table taken for an 8-bit table
Is8Bit_any(v) == TRUE

\* v//16 == 0
Is8Bit(v) == v \div 16 = 0

RECURSIVE DQTLoop(_, _)
DQTLoop(self, str) ==
    IF Len(str) = 0 THEN [im |-> self, err |-> ""]
    ELSE IF Len(str) < TableBytes THEN [im |-> self, err |-> "bad quantization table marker"]
    ELSE
        LET v == i8(str[1]) IN
        IF Is8Bit(v)
        THEN DQTLoop([self EXCEPT !.quantization = Put(@, v % 16, ArrayB(Slice(str, 1, TableBytes)))],
                     From(str, TableBytes))
        ELSE [im |-> self, err |-> ""]

DQT(self, marker, str) == DQTLoop(self, str)

\* handler(self, i) for the handler of the marker table
Handle(h, self, marker, str) ==
    CASE h = "APP" -> APP(self, marker, str)
      [] h = "COM" -> COM(self, marker, str)
      [] h = "SOF" -> SOF(self, marker, str)
      [] h = "DQT" -> DQT(self, marker, str)
      [] OTHER -> Skip(self, marker, str)

-----------------------------------------------------------------------------
(* JpegImageFile._open *)

NoInfo ==
    [jfif |-> None, jfif_version |-> None, dpi |-> None, jfif_unit |-> None,
     jfif_density |-> None, exif |-> None, flashpix |-> None, adobe |-> None,
     adobe_transform |-> None, progressive |-> None, progression |-> None,
     icc_profile |-> None]

\* the image object as Image.__init__ and ImageFile.__init__ leave it, before _open
NewImage(format) ==
    [format |-> format, mode |-> "", size |-> <<0, 0>>, info |-> NoInfo, tile |-> <<>>,
     bits |-> 0, layers |-> 0, layer |-> <<>>, quantization |-> <<>>,
     app |-> <<>>, applist |-> <<>>, icclist |-> [none |-> FALSE, list |-> <<>>],
     encoderinfo |-> <<>>, encoderconfig |-> <<>>]

\* the attributes _open creates
OpenAttributes(self) ==
    [self EXCEPT !.bits = 0, !.layers = 0, !.layer = <<>>, !.quantization = <<>>,
                 !.app = <<>>, !.applist = <<>>, !.icclist = [none |-> FALSE, list |-> <<>>]]

\* the raw mode always the colour mode
Tile_plain(self) ==
    [codec |-> "jpeg", box |-> <<0, 0>> \o self.size, offset |-> 0,
     args |-> <<self.mode, "">>]

\* the decode descriptor built at start of scan
Tile(self) ==
    [codec |-> "jpeg", box |-> <<0, 0>> \o self.size, offset |-> 0,
     args |-> <<IF self.mode = "CMYK" THEN "CMYK;I" ELSE self.mode, "">>]

\* what the scan loop finds where it expects a marker, given the pending s and the unread bytes
Candidate(pend, f) == pend \o Read(f, 1).data

Kind(pend, f) ==
    LET c == Candidate(pend, f) IN
    IF ~CanI16(c, 0) THEN "EOF"
    ELSE LET i == i16(c, 0) IN
         IF InMARKER(i) THEN (IF i = SOS THEN "SOS" ELSE MARKER(i))
         ELSE IF i = 0 \/ i = 65535 THEN "Pad"
         ELSE "Bad"

\* the result of one iteration of the loop
Result(p, self, pend, f, e, i, str) ==
    [pc |-> p, im |-> self, s |-> pend, fp |-> f, err |-> e, i |-> i, str |-> str]

\* after the handler of marker i returned r on payload seg.s
AfterHandler(c, i, seg, r) ==
    IF r.err # "" THEN Result("failed", r.im, c, seg.fp, r.err, i, seg.s)
    ELSE IF i = SOS THEN
        \* start of scan: the decode descriptor, then break
        Result("done", [r.im EXCEPT !.tile = <<Tile(r.im)>>], c, seg.fp, "", i, seg.s)
    ELSE
        \* s = self.fp.read(1)
        Result("scan", r.im, Read(seg.fp, 1).data, Read(seg.fp, 1).rest, "", i, seg.s)

\* the handler's own read of the segment, then the handler
WithSegment(self, c, i, seg) ==
    IF seg.err # "" THEN Result("failed", self, c, seg.fp, seg.err, i, <<>>)
    ELSE Eval(LAMBDA r : AfterHandler(c, i, seg, r), Handle(MARKER(i), self, i, seg.s))

\* padding that is looked at again instead of being passed
OnCandidate_again(self, c, i, rest) ==
    IF InMARKER(i) THEN
        IF MARKER(i) = "None"
        THEN Result("scan", self, Read(rest, 1).data, Read(rest, 1).rest, "", i, <<>>)
        ELSE Eval(LAMBDA seg : WithSegment(self, c, i, seg), ReadSegment(rest))
    ELSE IF i = 0 \/ i = 65535 THEN Result("scan", self, <<255>>, <<c[2]>> \o rest, "", i, <<>>)
    ELSE Result("failed", self, c, rest, "no marker found", i, <<>>)

\* i = i16(s), then the three branches of the loop body
OnCandidate(self, c, i, rest) ==
    IF InMARKER(i) THEN
        IF MARKER(i) = "None"
        THEN Result("scan", self, Read(rest, 1).data, Read(rest, 1).rest, "", i, <<>>)
        ELSE Eval(LAMBDA seg : WithSegment(self, c, i, seg), ReadSegment(rest))
    ELSE IF i = 0 \/ i = 65535 THEN Result("scan", self, <<255>>, rest, "", i, <<>>)
    ELSE Result("failed", self, c, rest, "no marker found", i, <<>>)

\* one iteration of the while loop of _open: s = s + self.fp.read(1) and the rest
Iter(self, pend, f) ==
    Eval(LAMBDA r1 :
            IF ~CanI16(pend \o r1.data, 0)
            THEN Result("failed", self, pend \o r1.data, r1.rest, "struct.error", -1, <<>>)
            ELSE Eval(LAMBDA i : OnCandidate(self, pend \o r1.data, i, r1.rest),
                      i16(pend \o r1.data, 0)),
         Read(f, 1))

-----------------------------------------------------------------------------
(* _save: the values of the options *)

\* Python values of the save options: integers, strings (sequences of characters),
\* lists of tables, dictionaries of tables, None
PyInt(n) == [t |-> "int", n |-> n, s |-> <<>>, l |-> <<>>]
PyStr(cs) == [t |-> "str", n |-> 0, s |-> cs, l |-> <<>>]
PyList(l) == [t |-> "list", n |-> 0, s |-> <<>>, l |-> l]
PyDict(d) == [t |-> "dict", n |-> 0, s |-> <<>>, l |-> d]
NoneV == [t |-> "none", n |-> 0, s |-> <<>>, l |-> <<>>]

\* info.get(key, default)
Get(opt, default) == IF opt = None THEN default ELSE opt[1]

KEEP == <<"k", "e", "e", "p">>
S444 == <<"4", ":", "4", ":", "4">>
S422 == <<"4", ":", "2", ":", "2">>
S411 == <<"4", ":", "1", ":", "1">>
WEB_LOW == <<"w", "e", "b", "_", "l", "o", "w">>
WEB_HIGH == <<"w", "e", "b", "_", "h", "i", "g", "h">>

\* PIL.JpegPresets.presets: two of its entries, with tables of the model's own
PresetTable(a) == [k \in 1..64 |-> (a + k) % 100]
presets ==
    [name \in {WEB_LOW, WEB_HIGH} |->
        IF name = WEB_LOW
        THEN [subsampling |-> PyInt(2), quantization |-> PyList(<<PresetTable(20), PresetTable(21)>>)]
        ELSE [subsampling |-> PyInt(0), quantization |-> PyList(<<PresetTable(6), PresetTable(7)>>)]]

\* x in presets, for a hashable x
InPresets(x) == x.t = "str" /\ x.s \in DOMAIN presets

\* hash(x) raises TypeError
Unhashable(x) == x.t \in {"list", "dict"}

RAWMODE ==
    [mode \in {"1", "L", "RGB", "RGBA", "RGBX", "CMYK", "YCbCr"} |->
        CASE mode \in {"1", "L"} -> "L"
          [] mode \in {"RGB", "RGBA", "RGBX"} -> "RGB"
          [] mode = "CMYK" -> "CMYK;I"
          [] OTHER -> "YCbCr"]

zigzag_index ==
    << 0,  1,  5,  6, 14, 15, 27, 28,
       2,  4,  7, 13, 16, 26, 29, 42,
       3,  8, 12, 17, 25, 30, 41, 43,
       9, 11, 18, 24, 31, 40, 44, 53,
      10, 19, 23, 32, 39, 45, 52, 54,
      20, 22, 33, 38, 46, 51, 55, 60,
      21, 34, 37, 47, 50, 56, 59, 61,
      35, 36, 48, 49, 57, 58, 62, 63 >>

samplings(t) ==
    CASE t = <<1, 1, 1, 1, 1, 1>> -> 0
      [] t = <<2, 1, 1, 1, 1, 1>> -> 1
      [] t = <<2, 2, 1, 1, 1, 1>> -> 2
      [] OTHER -> -1

\* qtables[key] for key in xrange(len(qtables)) if qtables.has_key(key), then the
\* zig-zag reordering of each table
convert_dict_qtables(d) ==
    LET keys == {key \in 0..(Cardinality(DOMAIN d) - 1) : key \in DOMAIN d}
        RECURSIVE Pick(_)
        Pick(key) ==
            IF key >= Cardinality(DOMAIN d) THEN <<>>
            ELSE (IF key \in keys THEN <<d[key]>> ELSE <<>>) \o Pick(key + 1)
        picked == Pick(0)
    IN [idx \in 1..Len(picked) |-> [j \in 1..64 |-> picked[idx][zigzag_index[j] + 1]]]

\* im.layer[0][1:3] + im.layer[1][1:3] + im.layer[2][1:3], looked up in samplings
get_sampling(self) ==
    IF Len(self.layer) < 3 THEN [err |-> "IndexError", v |-> PyInt(-1)]
    ELSE [err |-> "",
          v |-> PyInt(samplings(<<self.layer[1][2], self.layer[1][3],
                                self.layer[2][2], self.layer[2][3],
                                self.layer[3][2], self.layer[3][3]>>))]

-----------------------------------------------------------------------------
(* _save: quantization tables given as text *)

DigitChars == <<"0", "1", "2", "3", "4", "5", "6", "7", "8", "9">>
IsDigit(c) == \E d \in 1..10 : DigitChars[d] = c
DigitVal(c) == (CHOOSE d \in 1..10 : DigitChars[d] = c) - 1
IsSpace(c) == c \in {" ", "\t", "\n", "\r"}

\* the least index in lo..hi of an element of str in the set cs, 0 if none
RECURSIVE Find(_, _, _, _)
Find(str, cs, lo, hi) ==
    IF lo > hi THEN 0
    ELSE IF lo = hi THEN (IF str[lo] \in cs THEN lo ELSE 0)
    ELSE Eval(LAMBDA k : IF k # 0 THEN k ELSE Find(str, cs, ((lo + hi) \div 2) + 1, hi),
              Find(str, cs, lo, (lo + hi) \div 2))

\* the end (exclusive) of the run from a on that holds no element of cs
RunEnd(str, cs, a) ==
    Eval(LAMBDA k : IF k = 0 THEN Len(str) + 1 ELSE k, Find(str, cs, a, Len(str)))

\* str.splitlines(): the lines that start in lo..hi
RECURSIVE LinesIn(_, _, _)
LinesIn(str, lo, hi) ==
    IF lo > hi THEN <<>>
    ELSE IF lo = hi THEN
        IF lo = 1 \/ str[lo - 1] = "\n"
        THEN <<SubSeq(str, lo, RunEnd(str, {"\n"}, lo) - 1)>>
        ELSE <<>>
    ELSE LinesIn(str, lo, (lo + hi) \div 2) \o LinesIn(str, ((lo + hi) \div 2) + 1, hi)

splitlines(str) == LinesIn(str, 1, Len(str))

\* line.split('#', 1)[0]
BeforeHash(line) == SubSeq(line, 1, RunEnd(line, {"#"}, 1) - 1)

\* str.split(): the words that start in lo..hi
RECURSIVE WordsIn(_, _, _)
WordsIn(str, lo, hi) ==
    IF lo > hi THEN <<>>
    ELSE IF lo = hi THEN
        IF ~IsSpace(str[lo]) /\ (lo = 1 \/ IsSpace(str[lo - 1]))
        THEN <<SubSeq(str, lo, RunEnd(str, {" ", "\t", "\n", "\r"}, lo) - 1)>>
        ELSE <<>>
    ELSE WordsIn(str, lo, (lo + hi) \div 2) \o WordsIn(str, ((lo + hi) \div 2) + 1, hi)

split(str) == WordsIn(str, 1, Len(str))

\* int(num) succeeds: an optional sign and at least one digit
IsInt(num) ==
    LET body == IF num # <<>> /\ num[1] \in {"+", "-"} THEN Tail(num) ELSE num
    IN body # <<>> /\ \A k \in 1..Len(body) : IsDigit(body[k])

RECURSIVE DigitsValue(_, _)
DigitsValue(ds, acc) ==
    IF ds = <<>> THEN acc ELSE DigitsValue(Tail(ds), 10 * acc + DigitVal(Head(ds)))

\* int(num)
IntOf(num) ==
    IF num[1] = "-" THEN 0 - DigitsValue(Tail(num), 0)
    ELSE IF num[1] = "+" THEN DigitsValue(Tail(num), 0)
    ELSE DigitsValue(num, 0)

\* [num for line in qtables.splitlines() for num in line.split('#', 1)[0].split()]
RECURSIVE WordsOf(_)
WordsOf(lines) ==
    IF lines = <<>> THEN <<>>
    ELSE split(BeforeHash(Head(lines))) \o WordsOf(Tail(lines))

Tokens(str) == WordsOf(splitlines(str))

\* [lines[s:s+64] for s in xrange(0, len(lines), 64)]
Chunks64(lines) ==
    [c \in 1..((Len(lines) + 63) \div 64) |-> Slice(lines, 64 * (c - 1), 64 * c)]

\* the first table that validate_qtables rejects, and how
RECURSIVE CheckTables(_, _)
CheckTables(tables, idx) ==
    IF idx > Len(tables) THEN ""
    ELSE IF Len(tables[idx]) # 64 THEN "Invalid quantization table"
    ELSE IF \E k \in 1..64 : tables[idx][k] < -128 \/ tables[idx][k] > 127 THEN "OverflowError"
    ELSE CheckTables(tables, idx + 1)

\* the list part of validate_qtables
ValidateList(tables) ==
    IF ~(0 < Len(tables) /\ Len(tables) < 5)
    THEN [err |-> "None or too many quantization tables", v |-> NoneV]
    ELSE Eval(LAMBDA e : [err |-> e, v |-> IF e = "" THEN PyList(tables) ELSE NoneV],
              CheckTables(tables, 1))

validate_qtables(qtables) ==
    IF qtables.t = "none" THEN [err |-> "", v |-> NoneV]
    ELSE IF qtables.t = "str" THEN
        Eval(LAMBDA toks :
                IF \E k \in 1..Len(toks) : ~IsInt(toks[k])
                THEN [err |-> "Invalid quantization table", v |-> NoneV]
                ELSE ValidateList(Chunks64([k \in 1..Len(toks) |-> IntOf(toks[k])])),
             Tokens(qtables.s))
    ELSE IF qtables.t = "dict" THEN ValidateList(convert_dict_qtables(qtables.l))
    ELSE IF qtables.t = "list" THEN ValidateList(qtables.l)
    ELSE [err |-> "", v |-> NoneV]

-----------------------------------------------------------------------------
(* _save: the ICC profile *)

ICC_OVERHEAD_LEN == 14
\* 65533 in the source; the model takes a small limit, so that a profile of a few
\* bytes needs several markers
MAX_BYTES_IN_MARKER == 16
MAX_DATA_BYTES_IN_MARKER == MAX_BYTES_IN_MARKER - ICC_OVERHEAD_LEN

\* while icc_profile: markers.append(icc_profile[:MAX]); icc_profile = icc_profile[MAX:]
Markers(icc_profile) ==
    [c \in 1..((Len(icc_profile) + MAX_DATA_BYTES_IN_MARKER - 1) \div MAX_DATA_BYTES_IN_MARKER) |->
        Slice(icc_profile, MAX_DATA_BYTES_IN_MARKER * (c - 1), MAX_DATA_BYTES_IN_MARKER * c)]

\* a total count one too high
ICCMarker_total(i, n, marker) ==
    <<255, 226>> \o packH(2 + ICC_OVERHEAD_LEN + Len(marker))
        \o ICC_PROFILE0 \o o8(i) \o o8(n + 1) \o marker

\* b"\xFF\xE2" + size + b"ICC_PROFILE\0" + o8(i) + o8(len(markers)) + marker
ICCMarker(i, n, marker) ==
    <<255, 226>> \o packH(2 + ICC_OVERHEAD_LEN + Len(marker))
        \o ICC_PROFILE0 \o o8(i) \o o8(n) \o marker

\* the segments of the markers numbered lo..hi, i counting from 1
RECURSIVE Extra(_, _, _)
Extra(markers, lo, hi) ==
    IF lo > hi THEN <<>>
    ELSE IF lo = hi THEN ICCMarker(lo, Len(markers), markers[lo])
    ELSE Extra(markers, lo, (lo + hi) \div 2) \o Extra(markers, ((lo + hi) \div 2) + 1, hi)

-----------------------------------------------------------------------------
(* _save *)

\* the preset's value as a default for an option that was not given
FromPreset_default(value, given) == IF given = None THEN value ELSE given[1]

\* subsampling = preset.get('subsampling', -1); qtables = preset.get('quantization'):
\* the preset's value, whatever was given
FromPreset(value, given) == value

\* lines 466-485: quality, and what it makes of subsampling and qtables
ResolveQuality(info) ==
    LET quality == Get(info.quality, PyInt(0))
        subsampling == Get(info.subsampling, PyInt(-1))
        qtables == Get(info.qtables, NoneV)
    IN
    IF quality = PyStr(KEEP) THEN
        [err |-> "", quality |-> PyInt(0), subsampling |-> PyStr(KEEP), qtables |-> PyStr(KEEP)]
    ELSE IF InPresets(quality) THEN
        [err |-> "", quality |-> PyInt(0),
         subsampling |-> FromPreset(presets[quality.s].subsampling, info.subsampling),
         qtables |-> FromPreset(presets[quality.s].quantization, info.qtables)]
    ELSE IF quality.t # "int" THEN
        [err |-> "Invalid quality setting", quality |-> quality,
         subsampling |-> subsampling, qtables |-> qtables]
    ELSE IF Unhashable(subsampling) \/ Unhashable(qtables) THEN
        [err |-> "TypeError", quality |-> quality,
         subsampling |-> subsampling, qtables |-> qtables]
    ELSE
        [err |-> "", quality |-> quality,
         subsampling |-> IF InPresets(subsampling)
                         THEN presets[subsampling.s].subsampling ELSE subsampling,
         qtables |-> IF InPresets(qtables)
                     THEN presets[qtables.s].quantization ELSE qtables]

\* a source that need not be a JPEG file
KeepAllowed_any(self) == TRUE

\* im.format == "JPEG"
KeepAllowed(self) == self.format = "JPEG"

KeepError == "Cannot use 'keep' when original image is not a JPEG"

\* lines 487-496
ResolveSubsampling(self, subsampling) ==
    IF subsampling = PyStr(S444) THEN [err |-> "", v |-> PyInt(0)]
    ELSE IF subsampling = PyStr(S422) THEN [err |-> "", v |-> PyInt(1)]
    ELSE IF subsampling = PyStr(S411) THEN [err |-> "", v |-> PyInt(2)]
    ELSE IF subsampling = PyStr(KEEP) THEN
        IF ~KeepAllowed(self) THEN [err |-> KeepError, v |-> subsampling]
        ELSE get_sampling(self)
    ELSE [err |-> "", v |-> subsampling]

\* lines 527-531
ResolveQtables(self, qtables) ==
    IF qtables = PyStr(KEEP) THEN
        IF ~KeepAllowed(self) THEN [err |-> KeepError, v |-> NoneV]
        ELSE validate_qtables(PyDict(self.quantization))
    ELSE validate_qtables(qtables)

\* lines 533-548
BuildExtra(icc_profile) ==
    IF icc_profile = None \/ icc_profile = Some(<<>>) THEN <<>>
    ELSE Eval(LAMBDA markers : Extra(markers, 1, Len(markers)), Markers(icc_profile[1]))

NoConfig == <<>>

\* _save up to im.encoderconfig: the exception raised, or the configuration
SaveConfig(self, info) ==
    IF self.mode \notin DOMAIN RAWMODE THEN [err |-> "cannot write mode", config |-> NoConfig]
    ELSE
    Eval(LAMBDA q :
        IF q.err # "" THEN [err |-> q.err, config |-> NoConfig]
        ELSE
        Eval(LAMBDA sub :
            IF sub.err # "" THEN [err |-> sub.err, config |-> NoConfig]
            ELSE
            Eval(LAMBDA qt :
                IF qt.err # "" THEN [err |-> qt.err, config |-> NoConfig]
                ELSE [err |-> "",
                      config |-> Some([quality |-> q.quality, progressive |-> FALSE,
                                       smooth |-> 0, optimize |-> FALSE, streamtype |-> 0,
                                       dpi |-> <<0, 0>>, subsampling |-> sub.v,
                                       qtables |-> qt.v,
                                       extra |-> BuildExtra(info.icc_profile),
                                       exif |-> <<>>])],
                ResolveQtables(self, q.qtables)),
            ResolveSubsampling(self, q.subsampling)),
        ResolveQuality(info))

-----------------------------------------------------------------------------
(* The bytes the environment may supply *)

MaxSegs == 3

\* the bytes of a segment after the pending 0xFF: marker byte, length, payload, and what follows
Seg(lo, payload, nxt) == <<lo>> \o packH(Len(payload) + 2) \o payload \o nxt

ICCFragment(seq, total, data) == ICC_PROFILE0 \o <<seq, total>> \o data

\* a frame header whose first component has the sampling byte samp
SOFHeader(bits, h, w, layers, ncomp, samp) ==
    <<bits>> \o packH(h) \o packH(w) \o <<layers>>
        \o [k \in 1..(3 * ncomp) |->
                CASE k % 3 = 1 -> (k + 2) \div 3
                  [] k % 3 = 2 -> (IF k = 2 THEN samp ELSE 17)
                  [] OTHER -> (IF k = 3 THEN 0 ELSE 1)]

SOFPayload(bits, h, w, layers, ncomp) == SOFHeader(bits, h, w, layers, ncomp, 33)

\* a quantization table entry: the precision/slot byte and 64 coefficients
Coefficients(a, b) == [k \in 1..(TableBytes - 1) |-> (a * k + b) % 256]
DQTEntry(v, a, b) == <<v>> \o Coefficients(a, b)

FirstBytes == {<<255>>, <<1>>, <<>>}

GeneralChunks ==
    { <<>>, <<255>>, <<0>>, <<1>>, <<216, 255>>, <<217, 0>>,
      <<196, 0>>, <<196, 0, 5, 1>>,
      Seg(196, <<1, 2>>, <<255>>),
      Seg(218, <<1>>, <<>>),
      Seg(218, <<1>>, <<7, 255, 217>>),
      Seg(192, SOFPayload(8, 2, 3, 4, 4), <<255>>),
      Seg(254, <<104, 105>>, <<255>>),
      Seg(224, JFIF \o <<0, 1, 2, 1, 0, 72, 0, 72>>, <<255>>),
      Seg(226, ICCFragment(1, 1, <<7>>), <<255>>),
      Seg(192, SOFPayload(8, 2, 3, 3, 3), <<255>>),
      Seg(194, SOFPayload(8, 256, 1, 1, 1), <<255>>),
      Seg(219, DQTEntry(0, 1, 0), <<255>>) }

-----------------------------------------------------------------------------
(* The state machine *)

NoHist == [i |-> -1, s |-> <<>>, sof |-> None, icc |-> None, gen |-> 0]

Init ==
    /\ pc = "open"
    /\ im = NewImage("JPEG")
    /\ s = <<>>
    /\ fp = <<>>
    /\ src = "feed"
    /\ nseg = 0
    /\ err = ""
    /\ hist = NoHist

\* the unread bytes as the next step finds them
Input(chunks, max) ==
    IF src = "file" THEN {fp}
    ELSE IF nseg < max THEN {fp \o c : c \in chunks}
    ELSE {fp}

\* _open up to the loop: the first byte must be 0xFF
Open(firsts) ==
    /\ pc = "open"
    /\ \E f \in (IF src = "file" THEN {fp} ELSE firsts) :
        LET r == Read(f, 1) IN
        /\ IF r.data = <<>> THEN
               /\ pc' = "failed" /\ err' = "IndexError" /\ im' = im
           ELSE IF i8(r.data[1]) # 255 THEN
               /\ pc' = "failed" /\ err' = "not a JPEG file" /\ im' = im
           ELSE
               /\ pc' = "scan" /\ err' = "" /\ im' = OpenAttributes(im)
        /\ s' = r.data
        /\ fp' = r.rest
    /\ nseg' = 0
    /\ UNCHANGED <<src, hist>>

\* the assignments of one iteration of the loop on the unread bytes f
Step(f) ==
    \E r \in {Iter(im, s, f)} :
    /\ pc' = r.pc
    /\ im' = r.im
    /\ s' = r.s
    /\ fp' = r.fp
    /\ err' = r.err
    /\ hist' = [hist EXCEPT !.i = r.i, !.s = r.str,
                             !.sof = IF r.i >= 0 /\ InMARKER(r.i) /\ MARKER(r.i) = "SOF"
                                        /\ r.err # "truncated"
                                     THEN Some(r.str) ELSE @]
    /\ nseg' = nseg + 1
    /\ UNCHANGED src

\* the stream ends where a marker is expected
ScanEOF(chunks, max) ==
    /\ pc = "scan"
    /\ \E f \in Input(chunks, max) : Kind(s, f) = "EOF" /\ Step(f)

\* two bytes that are neither a marker nor padding
ScanBad(chunks, max) ==
    /\ pc = "scan"
    /\ \E f \in Input(chunks, max) : Kind(s, f) = "Bad" /\ Step(f)

\* 0x0000 or 0xFFFF
ScanPad(chunks, max) ==
    /\ pc = "scan"
    /\ \E f \in Input(chunks, max) : Kind(s, f) = "Pad" /\ Step(f)

\* a marker without handler
ScanNone(chunks, max) ==
    /\ pc = "scan"
    /\ \E f \in Input(chunks, max) : Kind(s, f) = "None" /\ Step(f)

ScanSkip(chunks, max) ==
    /\ pc = "scan"
    /\ \E f \in Input(chunks, max) : Kind(s, f) = "Skip" /\ Step(f)

ScanAPP(chunks, max) ==
    /\ pc = "scan"
    /\ \E f \in Input(chunks, max) : Kind(s, f) = "APP" /\ Step(f)

ScanCOM(chunks, max) ==
    /\ pc = "scan"
    /\ \E f \in Input(chunks, max) : Kind(s, f) = "COM" /\ Step(f)

ScanSOF(chunks, max) ==
    /\ pc = "scan"
    /\ \E f \in Input(chunks, max) : Kind(s, f) = "SOF" /\ Step(f)

ScanDQT(chunks, max) ==
    /\ pc = "scan"
    /\ \E f \in Input(chunks, max) : Kind(s, f) = "DQT" /\ Step(f)

\* start of scan: the Skip handler, then the decode descriptor
ScanSOS(chunks, max) ==
    /\ pc = "scan"
    /\ \E f \in Input(chunks, max) : Kind(s, f) = "SOS" /\ Step(f)

Next ==
    \/ Open(FirstBytes)
    \/ ScanEOF(GeneralChunks, MaxSegs)
    \/ ScanBad(GeneralChunks, MaxSegs)
    \/ ScanPad(GeneralChunks, MaxSegs)
    \/ ScanNone(GeneralChunks, MaxSegs)
    \/ ScanSkip(GeneralChunks, MaxSegs)
    \/ ScanAPP(GeneralChunks, MaxSegs)
    \/ ScanCOM(GeneralChunks, MaxSegs)
    \/ ScanSOF(GeneralChunks, MaxSegs)
    \/ ScanDQT(GeneralChunks, MaxSegs)
    \/ ScanSOS(GeneralChunks, MaxSegs)

Spec == Init /\ [][Next]_vars

\* streams of frame headers
SOFChunks ==
    { <<>>,
      Seg(218, <<1>>, <<>>),
      Seg(226, ICCFragment(1, 1, <<7>>), <<255>>),
      Seg(226, ICC_PROFILE0, <<255>>),
      Seg(194, SOFPayload(8, 2, 3, 3, 3), <<255>>),
      Seg(222, SOFPayload(8, 513, 1, 1, 1), <<255>>),
      Seg(192, SOFPayload(8, 256, 513, 3, 3), <<255>>),
      Seg(192, SOFPayload(8, 2, 3, 3, 2), <<255>>),
      Seg(192, SOFPayload(8, 2, 3, 3, 3) \o <<1>>, <<255>>),
      Seg(192, <<8>>, <<255>>),
      Seg(192, <<8, 0, 2, 0, 3>>, <<255>>) }
    \cup { Seg(192, SOFPayload(8, 2, 3, n, n), <<255>>) : n \in 0..5 }
    \cup { Seg(192, SOFPayload(b, 2, 3, n, n), <<255>>) : b \in {0, 12}, n \in {2, 3} }

NextSOF ==
    \/ Open(FirstBytes)
    \/ ScanEOF(SOFChunks, MaxSegs)
    \/ ScanAPP(SOFChunks, MaxSegs)
    \/ ScanSOF(SOFChunks, MaxSegs)
    \/ ScanSOS(SOFChunks, MaxSegs)

SpecSOF == Init /\ [][NextSOF]_vars

MaxIccSegs == 4

\* streams of ICC profile fragments
ICCChunks ==
    { <<>>,
      Seg(218, <<1>>, <<>>),
      Seg(192, SOFPayload(8, 2, 3, 3, 3), <<255>>),
      Seg(192, SOFPayload(8, 2, 3, 3, 3) \o <<1>>, <<255>>),
      Seg(226, ICC_PROFILE0, <<255>>),
      Seg(226, ICCFragment(1, 1, <<9, 8>>), <<255>>) }
    \cup { Seg(226, ICCFragment(q, n, <<16 * q + n>>), <<255>>) : q \in 1..3, n \in 2..3 }

NextICC ==
    \/ Open(FirstBytes)
    \/ ScanEOF(ICCChunks, MaxIccSegs)
    \/ ScanAPP(ICCChunks, MaxIccSegs)
    \/ ScanSOF(ICCChunks, MaxIccSegs)
    \/ ScanSOS(ICCChunks, MaxIccSegs)

SpecICC == Init /\ [][NextICC]_vars

\* streams of quantization tables
DQTChunks ==
    { <<>>, Seg(218, <<1>>, <<>>) }
    \cup { Seg(219, str, <<255>>) : str \in
            { <<>>,
              DQTEntry(0, 1, 0),
              DQTEntry(1, 3, 100),
              DQTEntry(5, 2, 7),
              DQTEntry(17, 1, 0),
              DQTEntry(16, 1, 0) \o Coefficients(1, 0),
              DQTEntry(0, 1, 0) \o DQTEntry(1, 3, 100),
              DQTEntry(0, 5, 1) \o DQTEntry(17, 1, 0),
              DQTEntry(17, 1, 0) \o DQTEntry(1, 3, 100),
              DQTEntry(0, 5, 1) \o <<17>>,
              DQTEntry(0, 1, 0) \o <<1, 2, 3>>,
              <<17>>,
              <<16, 1, 2>>,
              <<0, 1, 2>> } }

NextDQT ==
    \/ Open(FirstBytes)
    \/ ScanEOF(DQTChunks, MaxSegs)
    \/ ScanDQT(DQTChunks, MaxSegs)
    \/ ScanSOS(DQTChunks, MaxSegs)

SpecDQT == Init /\ [][NextDQT]_vars

\* a JFIF payload cut to its first n bytes: version 1.2, unit, densities 72 x 96, no thumbnail
JFIFPayload(unit, n) == Slice(JFIF \o <<0, 1, 2, unit, 0, 72, 0, 96, 0, 0>>, 0, n)

\* streams of application and comment segments
APPChunks ==
    { <<>>,
      Seg(218, <<1>>, <<>>),
      <<224, 0, 9, 74>>,
      Seg(192, SOFPayload(8, 2, 3, 3, 3), <<255>>),
      Seg(196, <<1, 2>>, <<255>>),
      Seg(219, DQTEntry(0, 1, 0), <<255>>),
      Seg(254, <<104, 105>>, <<255>>),
      Seg(254, <<>>, <<255>>),
      Seg(224, <<74, 70>>, <<255>>),
      Seg(225, Exif0 \o <<77, 77>>, <<255>>),
      Seg(226, FPXR0 \o <<1>>, <<255>>),
      Seg(226, ICCFragment(1, 1, <<7>>), <<255>>),
      Seg(238, Adobe, <<255>>),
      Seg(238, Adobe \o <<0, 100, 128, 0, 0, 0, 1>>, <<255>>) }
    \cup { Seg(224, JFIFPayload(1, n), <<255>>) : n \in {4, 7, 8, 11, 12, 14} }
    \cup { Seg(224, JFIFPayload(unit, 14), <<255>>) : unit \in {0, 2} }

NextAPP ==
    \/ Open(FirstBytes)
    \/ ScanEOF(APPChunks, MaxSegs)
    \/ ScanSkip(APPChunks, MaxSegs)
    \/ ScanAPP(APPChunks, MaxSegs)
    \/ ScanCOM(APPChunks, MaxSegs)
    \/ ScanSOF(APPChunks, MaxSegs)
    \/ ScanDQT(APPChunks, MaxSegs)
    \/ ScanSOS(APPChunks, MaxSegs)

SpecAPP == Init /\ [][NextAPP]_vars

MaxStreamSegs == 2

\* pieces of finite byte streams: padding, junk, markers, whole and cut segments
StreamChunks ==
    { <<>>, <<255>>, <<0>>, <<255, 255>>, <<0, 0>>, <<1>>,
      <<255, 216>>, <<255, 217>>, <<255, 218>>, <<255, 192, 0>>,
      <<255>> \o Seg(196, <<1, 2>>, <<>>),
      <<255>> \o Seg(254, <<104>>, <<>>),
      <<255>> \o Seg(192, SOFPayload(8, 2, 3, 1, 1), <<>>),
      <<255>> \o Seg(218, <<1>>, <<7, 255, 217>>) }

\* the streams of n pieces
RECURSIVE Streams(_)
Streams(n) ==
    IF n = 0 THEN {<<>>}
    ELSE {a \o c : a \in Streams(n - 1), c \in StreamChunks}

\* a finite byte stream, whole before the open
InitStream ==
    /\ pc = "open"
    /\ im = NewImage("JPEG")
    /\ s = <<>>
    /\ fp \in {<<255>> \o a : a \in Streams(MaxStreamSegs)} \cup {<<>>, <<1>>}
    /\ src = "file"
    /\ nseg = 0
    /\ err = ""
    /\ hist = NoHist

NextStream ==
    \/ Open(FirstBytes)
    \/ ScanEOF({}, 0)
    \/ ScanBad({}, 0)
    \/ ScanPad({}, 0)
    \/ ScanNone({}, 0)
    \/ ScanSkip({}, 0)
    \/ ScanCOM({}, 0)
    \/ ScanSOF({}, 0)
    \/ ScanSOS({}, 0)

\* the loop runs on as long as it can
SpecStream == InitStream /\ [][NextStream]_vars /\ WF_vars(NextStream)

-----------------------------------------------------------------------------
(* Saving: the sources, the options, the state machine *)

JFIFSeg == Seg(224, JFIF \o <<0, 1, 2, 1, 0, 72, 0, 72>>, <<255>>)
SOSSeg == Seg(218, <<1>>, <<>>)

\* JPEG files to open and save again
SourceFiles ==
    { <<255, 216, 255>> \o JFIFSeg
        \o Seg(219, DQTEntry(0, 1, 0) \o DQTEntry(1, 3, 100), <<255>>)
        \o Seg(192, SOFHeader(8, 2, 3, 3, 3, 33), <<255>>) \o SOSSeg,
      <<255, 216, 255>>
        \o Seg(219, DQTEntry(0, 1, 0), <<255>>)
        \o Seg(192, SOFHeader(8, 2, 3, 1, 1, 17), <<255>>) \o SOSSeg,
      <<255, 216, 255>>
        \o Seg(192, SOFHeader(8, 2, 3, 4, 4, 17), <<255>>) \o SOSSeg }
    \cup { <<255, 216, 255>>
            \o Seg(219, DQTEntry(1, 1, 0) \o DQTEntry(3, 1, 1), <<255>>)
            \o Seg(192, SOFHeader(8, 2, 3, 3, 3, 17), <<255>>) \o SOSSeg }
    \cup { <<255, 216, 255>>
            \o Seg(219, DQTEntry(0, 2, 1), <<255>>)
            \o Seg(192, SOFHeader(8, 2, 3, 3, 3, samp), <<255>>) \o SOSSeg : samp \in {17, 34, 65} }

\* images that some other plugin opened
ForeignImages ==
    { [NewImage("PNG") EXCEPT !.mode = m, !.size = <<3, 2>>] : m \in {"RGB", "L", "P"} }

NoOptions == [quality |-> None, subsampling |-> None, qtables |-> None, icc_profile |-> None]

QualityOptions ==
    { [NoOptions EXCEPT !.quality = q, !.subsampling = sub, !.qtables = qt] :
        q \in {None, Some(PyInt(75)), Some(PyStr(KEEP)), Some(PyStr(WEB_LOW)), Some(PyStr(<<"x">>))},
        sub \in {None, Some(PyInt(1)), Some(PyStr(S444)), Some(PyStr(S422)), Some(PyStr(S411)),
                 Some(PyStr(KEEP)), Some(PyStr(WEB_HIGH))},
        qt \in {None, Some(PyStr(KEEP)), Some(PyStr(WEB_LOW)), Some(PyList(<<PresetTable(1)>>))} }

\* the decimal digits of n >= 0
RECURSIVE Digits(_)
Digits(n) ==
    IF n < 10 THEN <<DigitChars[n + 1]>>
    ELSE Digits(n \div 10) \o <<DigitChars[(n % 10) + 1]>>

Decimal(n) == IF n < 0 THEN <<"-">> \o Digits(0 - n) ELSE Digits(n)

\* the k-th word of a text of the given kind
Word(kind, k) ==
    CASE kind = "ramp" -> Decimal(k % 100)
      [] kind = "signed" -> Decimal(IF k % 2 = 0 THEN -128 ELSE 127)
      [] kind = "large" -> Decimal(IF k = 1 THEN 200 ELSE 1)
      [] kind = "fraction" -> IF k = 2 THEN <<"1", ".", "5">> ELSE Decimal(k % 100)
      [] OTHER -> IF k = 2 THEN <<"x">> ELSE Decimal(k % 100)

\* what follows the k-th of n words, per words to a line, every line ending in a comment
Gap(n, per, k) ==
    IF per = 0 THEN (IF k = n THEN <<>> ELSE <<" ">>)
    ELSE IF k % per = 0 \/ k = n THEN <<" ", "#", " ", "7", " ", "8", "\n">>
    ELSE IF k % 2 = 0 THEN <<" ">>
    ELSE <<"\t", " ">>

\* the words lo..hi of a text of n words
RECURSIVE QWords(_, _, _, _, _)
QWords(kind, n, per, lo, hi) ==
    IF lo > hi THEN <<>>
    ELSE IF lo = hi THEN Word(kind, lo) \o Gap(n, per, lo)
    ELSE QWords(kind, n, per, lo, (lo + hi) \div 2)
            \o QWords(kind, n, per, ((lo + hi) \div 2) + 1, hi)

QText(kind, n, per) == QWords(kind, n, per, 1, n)

\* n words on one line without comment
QLine(kind, n) == QWords(kind, n, 0, 1, n)

QTexts ==
    { QLine("ramp", n) : n \in {0, 1, 63, 64, 65, 127, 128, 192, 256, 257, 320} }
    \cup { QText("ramp", n, 16) : n \in {64, 65, 128} }
    \cup { QText("signed", n, 32) : n \in {64, 256} }
    \cup { QLine("large", n) : n \in {64, 128} }
    \cup { QLine(kind, n) : kind \in {"fraction", "letter"}, n \in {3, 64} }

TextOptions == { [NoOptions EXCEPT !.qtables = Some(PyStr(str))] : str \in QTexts }

\* profiles of one marker, of several, and around the most the one-byte counts express
ProfileLengths ==
    (0..(2 * MAX_DATA_BYTES_IN_MARKER + 1))
        \cup {255 * MAX_DATA_BYTES_IN_MARKER, 255 * MAX_DATA_BYTES_IN_MARKER + 1}

Profile(n) == [k \in 1..n |-> (7 * k) % 256]

ProfileOptions == { [NoOptions EXCEPT !.icc_profile = Some(Profile(n))] : n \in ProfileLengths }

\* tables given as a mapping keyed by slot
DictOptions ==
    { [NoOptions EXCEPT !.qtables = Some(PyDict([k \in keys |-> PresetTable(k)]))] :
        keys \in {{0}, {0, 1}, {1, 3}, {2}} }

SaveOptions == QualityOptions \cup TextOptions \cup ProfileOptions \cup DictOptions

InitSave ==
    /\ s = <<>>
    /\ src = "file"
    /\ nseg = 0
    /\ err = ""
    /\ hist = NoHist
    /\ \/ pc = "open" /\ im = NewImage("JPEG") /\ fp \in SourceFiles
       \/ pc = "image" /\ im \in ForeignImages /\ fp = <<>>

\* _save up to im.encoderconfig, on an image that is open
Save(options) ==
    /\ pc \in {"done", "image"}
    /\ hist.gen = 0
    /\ \E info \in options : \E r \in {SaveConfig(im, info)} :
        /\ pc' = IF r.err = "" THEN "saved" ELSE "savefailed"
        /\ err' = r.err
        /\ im' = [im EXCEPT !.encoderinfo = <<info>>, !.encoderconfig = r.config]
    /\ UNCHANGED <<s, fp, src, nseg, hist>>

\* the number of components the encoder writes for a raw mode
Components(rawmode) ==
    CASE rawmode = "L" -> 1
      [] rawmode = "CMYK;I" -> 4
      [] OTHER -> 3

\* the file the encoder writes: SOI, the extra bytes, the frame header, the scan
WrittenFile(self) ==
    <<255, 216>> \o self.encoderconfig[1].extra \o <<255>>
        \o Seg(192, SOFHeader(8, self.size[2], self.size[1],
                              Components(RAWMODE[self.mode]), Components(RAWMODE[self.mode]), 17),
               <<255>>)
        \o SOSSeg

\* the saved file is opened
Reopen ==
    /\ pc = "saved"
    /\ hist.gen = 0
    /\ pc' = "open"
    /\ im' = NewImage("JPEG")
    /\ s' = <<>>
    /\ fp' = WrittenFile(im)
    /\ src' = "file"
    /\ nseg' = 0
    /\ err' = ""
    /\ hist' = [NoHist EXCEPT !.icc = im.encoderinfo[1].icc_profile, !.gen = 1]

NextSave ==
    \/ Open(FirstBytes)
    \/ ScanNone({}, 0)
    \/ ScanAPP({}, 0)
    \/ ScanDQT({}, 0)
    \/ ScanSOF({}, 0)
    \/ ScanSOS({}, 0)
    \/ Save(SaveOptions)
    \/ Reopen

SpecSave == InitSave /\ [][NextSave]_vars

-----------------------------------------------------------------------------
(* Properties of the marker scanner *)

\* C1: where the scanner expects a marker, two bytes that are no entry of the
\* marker table (0xFFC0..0xFFFE) and neither 0x0000 nor 0xFFFF end the open with
\* "no marker found", and no decode descriptor exists.
C1_UnknownMarkerFails ==
    (pc # "open" /\ hist.i >= 0 /\ hist.i \notin (65472..65534) /\ hist.i \notin {0, 65535})
        => (pc = "failed" /\ err = "no marker found" /\ im.tile = <<>>)

\* an unknown code after a handled application segment
C1_Witness ==
    /\ pc = "failed" /\ err = "no marker found"
    /\ hist.i = 65281
    /\ im.applist # <<>>

-----------------------------------------------------------------------------
(* Properties of the ICC fragment accumulator *)

\* the marker codes whose handler is SOF
SOFCodes == ((65472..65487) \ {65476, 65480, 65484}) \cup {65502}

\* the APP2 ICC_PROFILE payloads read so far, in arrival order
Frags ==
    LET icc == SelectSeq(im.applist, LAMBDA e : e[1] = "APP2" /\ HasPrefix(e[2], ICC_PROFILE0))
    IN [k \in 1..Len(icc) |-> icc[k][2]]

SeqOf(p) == p[13]
TotalOf(p) == p[14]
DataOf(p) == SubSeq(p, 15, Len(p))
Complete(fr) == \A k \in 1..Len(fr) : Len(fr[k]) >= 14

\* the sequence numbers are 1..N, each once
IsPermutation(fr) ==
    \A q \in 1..Len(fr) : Cardinality({k \in 1..Len(fr) : SeqOf(fr[k]) = q}) = 1

\* the payloads of the fragments numbered q, q+1, ... joined
RECURSIVE ConcatBySeq(_, _)
ConcatBySeq(fr, q) ==
    IF q > Len(fr) THEN <<>>
    ELSE DataOf(fr[CHOOSE k \in 1..Len(fr) : SeqOf(fr[k]) = q]) \o ConcatBySeq(fr, q + 1)

\* a frame header was handled and the open goes on
AfterSOF == pc = "scan" /\ hist.i \in SOFCodes

\* C2: when the fragments read before the frame header carry the sequence numbers
\* 1..N, each once, and all declare the total N, the profile is the payloads joined
\* in ascending sequence number, whatever order the fragments arrived in.
C2_OrderIndependent ==
    (AfterSOF /\ Frags # <<>> /\ Complete(Frags) /\ IsPermutation(Frags)
        /\ \A k \in 1..Len(Frags) : TotalOf(Frags[k]) = Len(Frags))
    => im.info.icc_profile = Some(Bytes(ConcatBySeq(Frags, 1)))

\* three fragments that arrived as 3, 1, 2
C2_Witness ==
    /\ AfterSOF /\ Len(Frags) = 3 /\ Complete(Frags) /\ IsPermutation(Frags)
    /\ \A k \in 1..3 : TotalOf(Frags[k]) = 3
    /\ SeqOf(Frags[1]) = 3 /\ SeqOf(Frags[2]) = 1
    /\ im.info.icc_profile # None

\* the SOF handler got as far as the ICC block
ReachedICC == hist.i \in SOFCodes /\ pc \in {"scan", "failed"} /\ err \in {"", "IndexError"}

\* C3 as stated: fragments that all declare the total N but whose sequence numbers
\* are not 1..N each once give an absent profile, and the open does not fail.
C3_IrregularIsAbsent ==
    (ReachedICC /\ Frags # <<>> /\ Complete(Frags)
        /\ (\A k \in 1..Len(Frags) : TotalOf(Frags[k]) = TotalOf(Frags[1]))
        /\ ~(Len(Frags) = TotalOf(Frags[1]) /\ IsPermutation(Frags)))
    => /\ im.info.icc_profile = Some(PyNone)
       /\ ((Len(hist.s) - 6) % 3 = 0 => pc = "scan")

\* the total declared by the fragment with the lowest sequence number (the lowest
\* total among several fragments with that number)
LowestTotal(fr) ==
    LET k == CHOOSE k \in 1..Len(fr) : \A j \in 1..Len(fr) :
                \/ SeqOf(fr[k]) < SeqOf(fr[j])
                \/ (SeqOf(fr[k]) = SeqOf(fr[j]) /\ TotalOf(fr[k]) <= TotalOf(fr[j]))
    IN TotalOf(fr[k])

\* C3 as amended: the profile is absent, and the open does not fail, when the
\* number of fragments differs from the total declared by the fragment with the
\* lowest sequence number.
C3_WrongCountIsAbsent ==
    (ReachedICC /\ Frags # <<>> /\ Complete(Frags) /\ Len(Frags) # LowestTotal(Frags))
    => /\ im.info.icc_profile = Some(PyNone)
       /\ im.icclist.none
       /\ ((Len(hist.s) - 6) % 3 = 0 => pc = "scan")

\* two fragments of a profile declared as three
C3_Witness ==
    /\ AfterSOF /\ Len(Frags) = 2 /\ Complete(Frags)
    /\ TotalOf(Frags[1]) = 3 /\ TotalOf(Frags[2]) = 3
    /\ im.info.icc_profile = Some(PyNone)

-----------------------------------------------------------------------------
(* Properties of the frame header *)

\* C5: with precision 8 the component count gives the mode (1: L, 3: RGB, 4: CMYK)
\* and any other count fails the open; a precision other than 8 fails the open
\* whatever the count.
C5_ModeFromCount ==
    (hist.i \in SOFCodes /\ pc \in {"scan", "failed"} /\ err # "truncated" /\ Len(hist.s) >= 6)
    => /\ (hist.s[1] = 8 /\ hist.s[6] = 1
            => im.mode = "L" /\ err \notin {"cannot handle bits", "cannot handle layers"})
       /\ (hist.s[1] = 8 /\ hist.s[6] = 3
            => im.mode = "RGB" /\ err \notin {"cannot handle bits", "cannot handle layers"})
       /\ (hist.s[1] = 8 /\ hist.s[6] = 4
            => im.mode = "CMYK" /\ err \notin {"cannot handle bits", "cannot handle layers"})
       /\ (hist.s[1] = 8 /\ hist.s[6] \notin {1, 3, 4}
            => pc = "failed" /\ err = "cannot handle layers")
       /\ (hist.s[1] # 8 => pc = "failed" /\ err = "cannot handle bits")

\* a frame header of four components was accepted
C5_Witness ==
    /\ AfterSOF /\ err = ""
    /\ hist.s[1] = 8 /\ hist.s[6] = 4
    /\ im.mode = "CMYK"

\* C6: an accepted frame header gives size = (width, height), the height from
\* payload bytes 1-2 and the width from bytes 3-4, big-endian; the decode descriptor
\* at start of scan has the box (0, 0, width, height) of the last frame header.
C6_SizeNotSwapped ==
    /\ AfterSOF =>
            im.size = <<hist.s[4] * 256 + hist.s[5], hist.s[2] * 256 + hist.s[3]>>
    /\ (pc = "done" /\ hist.sof # None) =>
            im.tile[1].box = <<0, 0, hist.sof[1][4] * 256 + hist.sof[1][5],
                                     hist.sof[1][2] * 256 + hist.sof[1][3]>>

\* start of scan after two frame headers, the second 513 wide and 256 high
C6_Witness ==
    /\ pc = "done" /\ hist.sof # None
    /\ Len(im.layer) = 6
    /\ im.tile[1].box = <<0, 0, 513, 256>>

-----------------------------------------------------------------------------
(* Properties of the quantization tables *)

\* table number k (from 0) of the payload p starts with a byte of non-zero
\* precision, and the k tables before it are whole 8-bit tables
AbandonedAt(p, k) ==
    /\ 65 * k < Len(p)
    /\ p[65 * k + 1] \div 16 # 0
    /\ \A j \in 0..(k - 1) : p[65 * j + 1] \div 16 = 0

\* the store q after the first k tables of the payload p were assigned
AfterTables(q, p, k) ==
    LET slots == {p[65 * j + 1] % 16 : j \in 0..(k - 1)}
        lastOf(x) == CHOOSE j \in 0..(k - 1) :
                        /\ p[65 * j + 1] % 16 = x
                        /\ \A j2 \in 0..(k - 1) : p[65 * j2 + 1] % 16 = x => j2 <= j
    IN [x \in (DOMAIN q) \cup slots |->
            IF x \in slots
            THEN [c \in 1..64 |->
                    LET b == p[65 * lastOf(x) + 1 + c] IN IF b >= 128 THEN b - 256 ELSE b]
            ELSE q[x]]

\* this step is the DQT handler on the payload hist'.s
DQTStep == pc = "scan" /\ hist'.i = 65499 /\ err' # "truncated"

\* C7 as stated: a table header of non-zero precision abandons the rest of the
\* segment without failure, however many bytes remain: the store keeps what was
\* assigned before, the addressed slot is not assigned, and scanning goes on.
C7_AbandonAnyLength ==
    [][\A k \in 0..3 :
        (DQTStep /\ AbandonedAt(hist'.s, k))
        => (pc' = "scan" /\ im'.quantization = AfterTables(im.quantization, hist'.s, k))]_vars

\* C7 as amended: the same when at least 65 bytes remain at that table header.
C7_AbandonWholeTable ==
    [][\A k \in 0..3 :
        (DQTStep /\ AbandonedAt(hist'.s, k) /\ Len(hist'.s) - 65 * k >= 65)
        => (pc' = "scan" /\ im'.quantization = AfterTables(im.quantization, hist'.s, k))]_vars

\* a segment whose second table has non-zero precision was handled, after a
\* segment that assigned slot 1
C7_Witness ==
    /\ pc = "scan" /\ hist.i = 65499
    /\ AbandonedAt(hist.s, 1)
    /\ DOMAIN im.quantization = {0, 1}

\* the payload p is a number of whole 8-bit tables
WholeTables(p) ==
    /\ Len(p) % 65 = 0
    /\ \A j \in 0..((Len(p) \div 65) - 1) : p[65 * j + 1] \div 16 = 0

\* every occupied slot is one of 0..3 and holds 64 coefficients
SlotsInRange ==
    \A x \in DOMAIN im.quantization : x \in 0..3 /\ Len(im.quantization[x]) = 64

\* C15: every occupied slot of the store has an id in 0..3, so at most 4 slots are
\* occupied, and every stored table has 64 coefficients, those of the most recent
\* 8-bit table addressed to the slot, in payload order.
C15_FourSlots ==
    /\ [](SlotsInRange)
    /\ [][(DQTStep /\ WholeTables(hist'.s))
            => /\ pc' = "scan"
               /\ im'.quantization =
                    AfterTables(im.quantization, hist'.s, Len(hist'.s) \div 65)]_vars

-----------------------------------------------------------------------------
(* Properties of the JFIF header *)

\* this step handles an APP0 segment whose payload starts with JFIF and reaches
\* to the end of the 2-byte version, bytes 5 and 6
JFIFStep ==
    /\ pc = "scan"
    /\ hist'.i = 65504
    /\ HasPrefix(hist'.s, JFIF)
    /\ Len(hist'.s) >= 7

\* the big-endian number in bytes o, o+1 (from 0) of the payload p
Word16(p, o) == 256 * p[o + 1] + p[o + 2]

\* C16: an APP0 JFIF segment with its version never fails the open and records the
\* version; with the unit byte and both densities present (12 bytes or more) it
\* records unit and density, and the dpi pair exactly when the unit is 1; with any
\* of them missing or short it records none of unit, density and dpi.
C16_JFIFTolerant ==
    [][JFIFStep =>
        /\ pc' = "scan" /\ err' = ""
        /\ im'.info.jfif = Some(Word16(hist'.s, 5))
        /\ im'.info.jfif_version = Some(<<hist'.s[6], hist'.s[7]>>)
        /\ IF Len(hist'.s) >= 12
           THEN /\ im'.info.jfif_unit = Some(hist'.s[8])
                /\ im'.info.jfif_density = Some(<<Word16(hist'.s, 8), Word16(hist'.s, 10)>>)
                /\ im'.info.dpi = IF hist'.s[8] = 1
                                  THEN Some(<<Word16(hist'.s, 8), Word16(hist'.s, 10)>>)
                                  ELSE im.info.dpi
           ELSE /\ im'.info.jfif_unit = im.info.jfif_unit
                /\ im'.info.jfif_density = im.info.jfif_density
                /\ im'.info.dpi = im.info.dpi]_vars

\* a JFIF segment that ends after the unit byte: the version alone is recorded
C16_Witness ==
    /\ pc = "scan"
    /\ hist.i = 65504 /\ HasPrefix(hist.s, JFIF) /\ Len(hist.s) = 8
    /\ im.info.jfif = Some(258)
    /\ im.info.jfif_unit = None /\ im.info.jfif_density = None /\ im.info.dpi = None

-----------------------------------------------------------------------------
(* Properties of the save configuration resolver *)

\* a save was attempted; its options
Saved == pc \in {"saved", "savefailed"}
Options == im.encoderinfo[1]
Config == im.encoderconfig[1]

\* the profile handed to the save whose file is now read
Blob == hist.icc[1]
Reloaded == hist.gen = 1 /\ hist.icc # None /\ Blob # <<>>

\* the number of markers a profile of n bytes needs
MarkersFor(n) == (n + MAX_DATA_BYTES_IN_MARKER - 1) \div MAX_DATA_BYTES_IN_MARKER

\* C4 as stated: a profile of any non-zero length, saved and read back, is the
\* profile of the reloaded image, byte for byte.
C4_AnyLengthRoundTrip ==
    (Reloaded /\ pc = "done") => im.info.icc_profile = Some(Bytes(Blob))

\* C4, amended: a profile of non-zero length that needs at most 255 markers is
\* written as markers of at most limit-14 payload bytes, numbered from 1, all with
\* the same total count; reading the file does not fail, and at start of scan the
\* profile of the reloaded image is the original, byte for byte.
C4_RoundTrip ==
    (Reloaded /\ MarkersFor(Len(Blob)) <= 255) =>
        /\ pc # "failed"
        /\ pc = "done" =>
            /\ im.info.icc_profile = Some(Bytes(Blob))
            /\ Len(Frags) = MarkersFor(Len(Blob))
            /\ \A k \in 1..Len(Frags) :
                /\ SeqOf(Frags[k]) = k
                /\ TotalOf(Frags[k]) = Len(Frags)
                /\ Len(DataOf(Frags[k])) \in 1..MAX_DATA_BYTES_IN_MARKER

\* a profile of two full markers and a shorter third, read back
C4_Witness ==
    /\ Reloaded /\ pc = "done"
    /\ Len(Frags) = 3
    /\ Len(DataOf(Frags[1])) = MAX_DATA_BYTES_IN_MARKER
    /\ Len(DataOf(Frags[3])) < MAX_DATA_BYTES_IN_MARKER
    /\ im.info.icc_profile = Some(Bytes(Blob))

\* the save was given only qtables, as a text that is neither "keep" nor a preset name
TextGiven ==
    /\ Saved
    /\ im.mode \in DOMAIN RAWMODE
    /\ Options.quality = None /\ Options.subsampling = None
    /\ Options.qtables # None
    /\ Options.qtables[1].t = "str"
    /\ Options.qtables[1].s # KEEP
    /\ Options.qtables[1].s \notin DOMAIN presets

\* C8: a text of 64*k integers, 1 <= k <= 4, resolves to the k tables of 64 entries
\* in input order; any other number of integers, and any word that is no integer,
\* fails the save with an invalid-table error.
C8_TextResolves ==
    TextGiven =>
        \E toks \in {Tokens(Options.qtables[1].s)} :
            IF (\A k \in 1..Len(toks) : IsInt(toks[k])) /\ Len(toks) \in {64, 128, 192, 256}
            THEN /\ pc = "saved"
                 /\ Config.qtables = PyList(Chunks64([k \in 1..Len(toks) |-> IntOf(toks[k])]))
            ELSE /\ pc = "savefailed"
                 /\ err \in {"Invalid quantization table", "None or too many quantization tables"}

\* subsampling reaches its resolution as "keep": given directly next to an integer
\* quality, or forced by quality "keep"
SubsamplingKeep(info) ==
    \/ info.quality = Some(PyStr(KEEP))
    \/ /\ Get(info.quality, PyInt(0)).t = "int"
       /\ info.subsampling = Some(PyStr(KEEP))
       /\ ~Unhashable(Get(info.qtables, NoneV))

\* qtables reaches its resolution as "keep"
QtablesKeep(info) ==
    \/ info.quality = Some(PyStr(KEEP))
    \/ /\ Get(info.quality, PyInt(0)).t = "int"
       /\ info.qtables = Some(PyStr(KEEP))
       /\ ~Unhashable(Get(info.subsampling, PyInt(-1)))

\* C9: when subsampling or qtables resolves via "keep", given directly or forced by
\* quality "keep", and the image was not opened by this plugin, the save fails with
\* the "keep" configuration error and no encoder configuration is built.
C9_KeepNeedsJPEG ==
    (/\ Saved
     /\ im.mode \in DOMAIN RAWMODE
     /\ im.format # "JPEG"
     /\ SubsamplingKeep(Options) \/ QtablesKeep(Options))
    => /\ pc = "savefailed"
       /\ err = KeepError
       /\ im.encoderconfig = NoConfig

\* qtables "keep" next to an explicit subsampling, on an image of another format
C9_Witness ==
    /\ pc = "savefailed" /\ err = KeepError
    /\ im.format = "PNG"
    /\ Options.quality = None
    /\ Options.subsampling = Some(PyStr(S422))
    /\ Options.qtables = Some(PyStr(KEEP))

\* the sampling factors of the first three component descriptors, as far as present
Factors(layer) ==
    IF Len(layer) < 3 THEN <<>>
    ELSE <<layer[1][2], layer[1][3], layer[2][2], layer[2][3], layer[3][2], layer[3][3]>>

\* C10: on a reloaded JPEG of any component count, subsampling "keep" resolves
\* without failing: to 0, 1, 2 for the factors (1,1,1,1,1,1), (2,1,1,1,1,1),
\* (2,2,1,1,1,1), and to the sentinel -1 in every other case.
C10_KeepResolves ==
    (/\ Saved
     /\ im.format = "JPEG"
     /\ Options.quality = None /\ Options.qtables = None
     /\ Options.subsampling = Some(PyStr(KEEP)))
    => /\ pc = "saved"
       /\ Config.subsampling =
            PyInt(CASE Factors(im.layer) = <<1, 1, 1, 1, 1, 1>> -> 0
                    [] Factors(im.layer) = <<2, 1, 1, 1, 1, 1>> -> 1
                    [] Factors(im.layer) = <<2, 2, 1, 1, 1, 1>> -> 2
                    [] OTHER -> -1)

-----------------------------------------------------------------------------
(* Properties of the scan loop *)

EOI == 65497

\* the decode descriptor the state should hold once the scan has started
Descriptor ==
    [codec |-> "jpeg",
     box |-> <<0, 0, im.size[1], im.size[2]>>,
     offset |-> 0,
     args |-> <<IF im.mode = "CMYK" THEN "CMYK;I" ELSE im.mode, "">>]

\* success and the start-of-scan marker go together, with one descriptor
SuccessAtSOS ==
    /\ pc = "done" => (hist.i = SOS /\ err = "" /\ im.tile = <<Descriptor>>)
    /\ pc # "done" => im.tile = <<>>
    /\ (hist.i = SOS /\ pc # "failed") => pc = "done"
    /\ hist.i = EOI => pc = "scan"

\* the step that ends the open consumed the marker byte and the segment, no more
StopsAfterSegment ==
    pc' = "done" =>
        /\ pc = "scan"
        /\ \E f \in Input(GeneralChunks, MaxSegs) :
            /\ Len(f) >= 3
            /\ f[1] = 218
            /\ hist'.s = Slice(f, 3, 1 + i16(f, 1))
            /\ fp' = From(f, 1 + i16(f, 1))

\* C11: the open succeeds exactly when the start-of-scan marker was handled: then,
\* and only then, there is one decode descriptor ("jpeg", (0,0)+size, 0, raw mode =
\* colour mode, CMYK;I for CMYK); no other marker, EOI included, ends the scan; and
\* the bytes after the start-of-scan segment stay unread.
C11_SuccessOnlyAtSOS == [](SuccessAtSOS) /\ [][StopsAfterSegment]_vars

\* a CMYK frame, then start of scan with entropy data and EOI behind it
C11_Witness ==
    /\ pc = "done"
    /\ im.mode = "CMYK"
    /\ im.tile[1].args[1] = "CMYK;I"
    /\ fp = <<7, 255, 217>>

\* a step of the loop on a frame header marker; fragments are pending before it;
\* it discards the fragment list
FrameHeaderStep == pc = "scan" /\ hist'.i \in SOFCodes
Pending == ~im.icclist.none /\ im.icclist.list # <<>>
Reassembles == FrameHeaderStep /\ ~im.icclist.none /\ im'.icclist.none

\* C12 as stated: a reassembly happens only at the first frame header of the stream.
C12_AtFirstFrameHeader == [][Reassembles => hist.sof = None]_vars

\* one step of the accumulator
OneShot ==
    /\ (FrameHeaderStep /\ err' = "") =>
            IF Pending
            THEN /\ im.info.icc_profile = None
                 /\ im'.info.icc_profile # None
                 /\ im'.icclist = [none |-> TRUE, list |-> <<>>]
            ELSE /\ im'.info.icc_profile = im.info.icc_profile
                 /\ im'.icclist = im.icclist
    /\ ~FrameHeaderStep =>
            /\ im'.info.icc_profile = im.info.icc_profile
            /\ im'.icclist.none = im.icclist.none
    /\ im.icclist.none => im'.icclist.none

\* C12, amended: reassembly is performed at most once in an open, at the first frame
\* header that finds a fragment pending; that frame header discards the fragment list
\* whether the reassembly gave a profile or not, and nothing but a frame header
\* resolves the profile or discards the list; a frame header that finds no fragment
\* leaves the accumulator as it is.
C12_OnceWherePending == [][OneShot]_vars

\* two frame headers handled, the list discarded with an absent profile
C12_Witness ==
    /\ pc = "scan" /\ hist.i \in SOFCodes
    /\ Len(im.layer) = 6
    /\ im.icclist.none
    /\ im.info.icc_profile = Some(PyNone)

\* an APP2 ICC_PROFILE segment is handled after a frame header discarded the list
LateFragment ==
    /\ pc = "scan"
    /\ im.icclist.none
    /\ hist'.i = 65506
    /\ HasPrefix(hist'.s, ICC_PROFILE0)

\* C13: after a frame header has reassembled, a further APP2 ICC_PROFILE segment is
\* recorded in the last-value map and in the ordered list like any APP segment, the
\* open goes on, and the resolved profile stays as it is.
C13_LateFragmentIsInert ==
    [][LateFragment =>
        /\ pc' = "scan"
        /\ err' = ""
        /\ im'.applist = Append(im.applist, <<"APP2", hist'.s>>)
        /\ im'.app["APP2"] = hist'.s
        /\ im'.info.icc_profile = im.info.icc_profile]_vars

-----------------------------------------------------------------------------
(* Properties of the application-segment store *)

APPCodes == 65504..65519
COMCode == 65534

\* the kind under which the segment of marker i is stored
KindOf(i) == IF i = COMCode THEN "COM" ELSE AppName(i)

\* a step of the loop on an APP or COM marker
AppStep == pc = "scan" /\ hist'.i \in APPCodes \cup {COMCode}

\* the step added the entry of its segment to the list and to the map
Recorded ==
    /\ im'.applist = Append(im.applist, <<KindOf(hist'.i), hist'.s>>)
    /\ DOMAIN im'.app = DOMAIN im.app \cup {KindOf(hist'.i)}
    /\ \A k \in DOMAIN im'.app :
        im'.app[k] = IF k = KindOf(hist'.i) THEN hist'.s ELSE im.app[k]

Untouched == im'.applist = im.applist /\ im'.app = im.app

\* what one step does to the two stores: a segment that was read is recorded even
\* when its handler fails afterwards; a segment that could not be read is not
StoreStep ==
    /\ (AppStep /\ (err' \notin {"truncated", "struct.error"} \/ hist'.s # <<>>)) => Recorded
    /\ (AppStep /\ err' \in {"truncated", "struct.error"}) => (Recorded \/ Untouched)
    /\ ~AppStep => Untouched

\* the map holds, for every kind, the payload of the last list entry of that kind
LastValues ==
    /\ DOMAIN im.app = {im.applist[k][1] : k \in 1..Len(im.applist)}
    /\ \A k \in 1..Len(im.applist) :
        (\A j \in (k + 1)..Len(im.applist) : im.applist[j][1] # im.applist[k][1])
            => im.app[im.applist[k][1]] = im.applist[k][2]

\* C14: every APP or COM segment handled adds one (kind, payload) entry at the end
\* of the ordered list, duplicates included, and sets the last value of its kind; no
\* other step changes the list or the map; so the map always holds, per kind, the
\* payload of the most recent list entry of that kind.
C14_OneEntryPerSegment == [](LastValues) /\ [][StoreStep]_vars

\* two segments of one kind with different payloads and a comment, in stream order
C14_Witness ==
    /\ Len(im.applist) = 3
    /\ im.applist[1][1] = "APP0" /\ im.applist[3][1] = "APP0"
    /\ im.applist[2][1] = "COM"
    /\ im.applist[1][2] # im.applist[3][2]
    /\ im.app["APP0"] = im.applist[3][2]

-----------------------------------------------------------------------------
(* Properties of quantization tables given as a mapping *)

\* the keys of the mapping d in ascending order
RECURSIVE Ascending(_)
Ascending(keys) ==
    IF keys = {} THEN <<>>
    ELSE LET least == CHOOSE k \in keys : \A j \in keys : k <= j
         IN <<least>> \o Ascending(keys \ {least})

\* one table per entry of d, in ascending key order, each reordered by zigzag_index
Reordered(d) ==
    LET keys == Ascending(DOMAIN d)
    IN [idx \in 1..Len(keys) |-> [j \in 1..64 |-> d[keys[idx]][zigzag_index[j] + 1]]]

\* the save was given only qtables, as a mapping of 1 to 4 tables
MappingGiven ==
    /\ Saved
    /\ im.mode \in DOMAIN RAWMODE
    /\ Options.quality = None /\ Options.subsampling = None
    /\ Options.qtables # None
    /\ Options.qtables[1].t = "dict"
    /\ Cardinality(DOMAIN Options.qtables[1].l) \in 1..4

\* the save was given only qtables "keep", on a reloaded JPEG with 1 to 4 stored tables
MappingKept ==
    /\ Saved
    /\ im.format = "JPEG"
    /\ Options.quality = None /\ Options.subsampling = None
    /\ Options.qtables = Some(PyStr(KEEP))
    /\ Cardinality(DOMAIN im.quantization) \in 1..4

\* C17: a mapping of 1 to 4 tables keyed by any integer slots, given as qtables or
\* read back from the reloaded image, resolves to one table per entry, in ascending
\* key order, each reordered by zigzag_index; no entry is dropped.
C17_MappingKeepsEveryEntry ==
    /\ MappingGiven => (pc = "saved" /\ Config.qtables = PyList(Reordered(Options.qtables[1].l)))
    /\ MappingKept => (pc = "saved" /\ Config.qtables = PyList(Reordered(im.quantization)))

-----------------------------------------------------------------------------
(* Properties of the presets *)

\* the save was given a preset name as quality, for a mode that can be written
QualityIsPreset ==
    /\ Saved
    /\ im.mode \in DOMAIN RAWMODE
    /\ Options.quality # None
    /\ InPresets(Options.quality[1])

\* the save was given an integer quality, or none
QualityIsInt == Saved /\ Get(Options.quality, PyInt(0)).t = "int"

\* what an explicit subsampling option other than "keep" stands for
SubsamplingOf(v) ==
    IF InPresets(v) THEN presets[v.s].subsampling
    ELSE IF v = PyStr(S444) THEN PyInt(0)
    ELSE IF v = PyStr(S422) THEN PyInt(1)
    ELSE IF v = PyStr(S411) THEN PyInt(2)
    ELSE v

\* what an explicit qtables option that is a preset name or a list stands for
QtablesOf(v) == IF InPresets(v) THEN presets[v.s].quantization ELSE v

\* C18 as stated: with a preset name as quality, an explicit subsampling or qtables
\* option is what reaches the encoder configuration, a preset name given there
\* being resolved to that preset's value.
C18_ExplicitWins ==
    QualityIsPreset =>
        /\ pc = "saved"
        /\ (Options.subsampling # None /\ Options.subsampling # Some(PyStr(KEEP)))
                => Config.subsampling = SubsamplingOf(Options.subsampling[1])
        /\ (Options.qtables # None /\ Options.qtables # Some(PyStr(KEEP)))
                => Config.qtables = QtablesOf(Options.qtables[1])

\* C18, amended: with a preset name as quality, the quality indicator is 0 and the
\* preset's subsampling and tables reach the encoder configuration whatever
\* subsampling or qtables option was given; with an integer quality, a preset name
\* given as subsampling or qtables is resolved to that preset's value in every save
\* that succeeds.
C18_PresetReplaces ==
    /\ QualityIsPreset =>
        /\ pc = "saved"
        /\ Config.quality = PyInt(0)
        /\ Config.subsampling = presets[Options.quality[1].s].subsampling
        /\ Config.qtables = presets[Options.quality[1].s].quantization
    /\ (QualityIsInt /\ pc = "saved" /\ Options.subsampling # None
            /\ InPresets(Options.subsampling[1]))
        => Config.subsampling = presets[Options.subsampling[1].s].subsampling
    /\ (QualityIsInt /\ pc = "saved" /\ Options.qtables # None
            /\ InPresets(Options.qtables[1]))
        => Config.qtables = presets[Options.qtables[1].s].quantization

\* quality web_low next to an explicit subsampling and an explicit table
C18_Witness ==
    /\ pc = "saved"
    /\ Options.quality = Some(PyStr(WEB_LOW))
    /\ Options.subsampling = Some(PyInt(1))
    /\ Options.qtables = Some(PyList(<<PresetTable(1)>>))
    /\ Config.subsampling = PyInt(2)
    /\ Len(Config.qtables.l) = 2

-----------------------------------------------------------------------------
(* Termination of the open *)

Ended == pc \in {"done", "failed"}

\* an iteration after which the loop goes on or the open succeeds has read a byte
Consumes == (pc = "scan" /\ pc' \in {"scan", "done"}) => Len(fp') < Len(fp)

\* C19: on every finite byte stream the open ends: each iteration that does not
\* fail reads at least one byte, and the open ends with the decode descriptor at
\* the start-of-scan marker or with a failure; a stream that runs out before a
\* start-of-scan marker, padding only included, ends in failure.
C19_OpenTerminates ==
    /\ <>Ended
    /\ [][Consumes]_vars
    /\ [](pc = "done" => (hist.i = SOS /\ im.tile # <<>>))
    /\ []((pc = "scan" /\ fp = <<>>) => <>(pc = "failed"))

\* a stream of padding alone has run out: the open failed after several iterations
C19_Witness ==
    /\ pc = "failed"
    /\ err = "struct.error"
    /\ fp = <<>>
    /\ nseg >= 4
    /\ hist.i = -1
    /\ im.applist = <<>> /\ im.layer = <<>>

-----------------------------------------------------------------------------
(* The frame header behind the decode descriptor *)

\* the colour modes a decode descriptor may carry
RawModes == {"L", "RGB", "CMYK;I"}

\* the frame header last handled passed the bit-depth and the component-count check
Passed(payload) == Len(payload) >= 6 /\ payload[1] = 8 /\ payload[6] \in {1, 3, 4}

\* C20: whenever the open succeeds, a frame header was handled before the
\* start-of-scan marker: the decode descriptor carries a colour mode of L, RGB
\* or CMYK;I and the width and height of a frame header that passed the
\* bit-depth and the component-count check.
C20_FrameHeaderBeforeScan ==
    pc = "done" =>
        /\ hist.sof # None
        /\ Passed(hist.sof[1])
        /\ im.tile[1].args[1] \in RawModes
        /\ im.tile[1].box = <<0, 0, i16(hist.sof[1], 3), i16(hist.sof[1], 1)>>

-----------------------------------------------------------------------------
(* The component descriptors of a successful open *)

\* the component count the frame header declares
Declared(payload) == i8(payload[6])

\* C21: after any successful open that handled a frame header, the list of
\* component descriptors has exactly as many entries as the component count that
\* frame header declares (1, 3 or 4), each built from one 3-byte group of the
\* frame header in frame order, whatever the length of the payload and however
\* many frame headers (DHP included) the stream holds.
C21_DescriptorsMatchCount ==
    (pc = "done" /\ hist.sof # None) =>
        /\ im.layers = Declared(hist.sof[1])
        /\ Len(im.layer) = im.layers
        /\ im.layer = Layers(SubSeq(hist.sof[1], 1, 6 + 3 * im.layers))

=============================================================================
